---- MODULE Spec2Model ----
(***************************************************************************)
(* Model of the order-preserving codec of package lex (encoding.go).       *)
(*                                                                         *)
(* A Go integer or IEEE bit pattern of w bits is a "word": a sequence of   *)
(* limbs, most significant first.  An 8-bit word is one limb below 2^8, a  *)
(* 16-bit word one limb below 2^16, 32- and 64-bit words are two and four  *)
(* limbs below 2^16.  Arithmetic wraps modulo 2^w as Go's does.  A buffer  *)
(* ([]byte) is a sequence of bytes; Go index i is TLA+ index i+1.          *)
(***************************************************************************)
EXTENDS Integers, Sequences, FiniteSets, TLC

VARIABLES
    pc,       \* "input", "encoded", "decoded", "scanned": position of the caller
    kind,     \* the Go type of the values under encoding
    intSize,  \* size in bytes of the platform's int and uint (4 or 8)
    a,        \* first value
    b,        \* second value, of the same type
    ba0,      \* contents of the first buffer before the Put call
    ba,       \* buffer the first value is encoded into
    bb,       \* buffer the second value is encoded into
    off,      \* offset into ba the decoder was given (it read ba[off:])
    lim,      \* end of the slice of ba the decoder was given (it read ba[:lim])
    ra,       \* value decoded from ba
    \* the generic codec (lex.go: Size, PutReflect, Reflect)
    gpc,      \* "input", "sized", "encoded", "decoded": position of the caller
    data,     \* the value passed to Size and PutReflect
    gbuf0,    \* contents of the buffer before PutReflect
    gbuf,     \* the buffer passed to PutReflect and then to Reflect
    gsize,    \* what Size returned
    gput,     \* how PutReflect ended: "ok", "error" or "panic"
    dst0,     \* the destination passed to Reflect, as it was before the call
    dst,      \* the destination after Reflect
    gget,     \* how Reflect ended: "ok", "error" or "panic"
    \* the key composer (lex.go: Key, and MustKey)
    kpc,      \* "input", "keyed", "must": position of the caller
    args,     \* first argument list
    args2,    \* second argument list
    key1,     \* what Key(args...) returned
    key2,     \* what Key(args2...) returned
    must,     \* how MustKey(args...) ended
    \* concurrent calls, each on its own buffer
    cpc,      \* per call: "ready", "running" or "done"
    cop,      \* per call: the function called and its argument
    cbuf,     \* per call: the caller's buffer
    clocal,   \* per stack frame: the local variables of the call running in it
    cres      \* per call: what the call returned

\* the variables of the primitive codec's callers
pvars == <<pc, kind, a, b, ba0, ba, bb, off, lim, ra>>

gvars == <<gpc, data, gbuf0, gbuf, gsize, gput, dst0, dst, gget>>

kvars == <<kpc, args, args2, key1, key2, must>>

cvars == <<cpc, cop, cbuf, clocal, cres>>

vars == <<pvars, intSize, gvars, kvars, cvars>>

\* the values the variables of a group have while nothing calls the part of
\* the package the group belongs to
Idle(group) ==
    CASE group = "primitive" ->
             /\ pc = "idle" /\ kind = "none" /\ a = << >> /\ b = << >> /\ ba0 = << >>
             /\ ba = << >> /\ bb = << >> /\ off = 0 /\ lim = 0 /\ ra = << >>
      [] group = "generic" ->
             /\ gpc = "idle" /\ data = << >> /\ gbuf0 = << >> /\ gbuf = << >>
             /\ gsize = 0 /\ gput = "none" /\ dst0 = << >> /\ dst = << >>
             /\ gget = "none"
      [] group = "key" ->
             /\ kpc = "idle" /\ args = << >> /\ args2 = << >>
             /\ key1 = << >> /\ key2 = << >> /\ must = << >>
      [] group = "concurrent" ->
             /\ cpc = << >> /\ cop = << >> /\ cbuf = << >> /\ clocal = << >>
             /\ cres = << >>

(***************************************************************************)
(* Bounds of the model.                                                    *)
(***************************************************************************)
\* integer samples lie within Radius of 0, of the sign boundary, of the
\* maximum and of every power of 256; float exponents and mantissas lie
\* within Radius of their extremes
Radius == 1
\* longest string encoded
MaxStrLen == 2
\* longest run of bytes that follows an encoded string in its buffer
MaxTail == 2

(***************************************************************************)
(* Words: fixed-width machine integers.                                    *)
(***************************************************************************)
NLimbs(w) == IF w <= 16 THEN 1 ELSE w \div 16

LimbMod(w) == IF w = 8 THEN 256 ELSE 65536

ZeroW(w) == [i \in 1..NLimbs(w) |-> 0]

OneW(w) == [i \in 1..NLimbs(w) |-> IF i = NLimbs(w) THEN 1 ELSE 0]

AllOnesW(w) == [i \in 1..NLimbs(w) |-> LimbMod(w) - 1]

\* math.MinInt8, math.MinInt16, math.MinInt32, math.MinInt64 as w-bit patterns
MinIntW(w) == [i \in 1..NLimbs(w) |-> IF i = 1 THEN LimbMod(w) \div 2 ELSE 0]

\* math.MaxInt8 .. math.MaxInt64
MaxIntW(w) ==
    [i \in 1..NLimbs(w) |-> IF i = 1 THEN LimbMod(w) \div 2 - 1 ELSE LimbMod(w) - 1]

RECURSIVE CarryInto(_, _, _, _)
\* carry out of the limbs below limb i when x and y are added
CarryInto(x, y, i, w) ==
    IF i = Len(x) THEN 0
    ELSE (x[i + 1] + y[i + 1] + CarryInto(x, y, i + 1, w)) \div LimbMod(w)

\* Go's x + y on w-bit integers (wraps modulo 2^w)
AddW(x, y, w) ==
    [i \in 1..Len(x) |-> (x[i] + y[i] + CarryInto(x, y, i, w)) % LimbMod(w)]

\* Go's -x on w-bit integers (two's complement, wraps modulo 2^w)
NegW(x, w) == AddW([i \in 1..Len(x) |-> LimbMod(w) - 1 - x[i]], OneW(w), w)

RECURSIVE XorBits(_, _, _)
XorBits(p, q, n) ==
    IF n = 0 THEN 0
    ELSE (((p % 2) + (q % 2)) % 2) + 2 * XorBits(p \div 2, q \div 2, n - 1)

\* Go's x ^ y on w-bit integers
XorW(x, y, w) == [i \in 1..Len(x) |-> XorBits(x[i], y[i], 16)]

\* n >= 0 for a signed w-bit integer n
NonNegW(x, w) == x[1] < LimbMod(w) \div 2

\* byte(v >> (8*k)) for a w-bit word v
ByteAt(v, k, w) ==
    LET limb == v[NLimbs(w) - (k \div 2)]
    IN  IF k % 2 = 1 THEN (limb \div 256) % 256 ELSE limb % 256

\* int64(v) of a 32-bit int: sign extension
SignExtend(v, from, to) ==
    IF from = to THEN v
    ELSE [i \in 1..NLimbs(to) |->
            IF i > NLimbs(to) - NLimbs(from) THEN v[i - (NLimbs(to) - NLimbs(from))]
            ELSE IF NonNegW(v, from) THEN 0 ELSE 65535]

\* uint64(v) of a 32-bit uint: zero extension
ZeroExtend(v, from, to) ==
    IF from = to THEN v
    ELSE [i \in 1..NLimbs(to) |->
            IF i > NLimbs(to) - NLimbs(from) THEN v[i - (NLimbs(to) - NLimbs(from))]
            ELSE 0]

\* int(v), uint(v) of a 64-bit integer: the low bits are kept
Truncate(v, from, to) ==
    [i \in 1..NLimbs(to) |-> v[i + (NLimbs(from) - NLimbs(to))]]

(***************************************************************************)
(* encoding/binary.BigEndian, as called by the codec.                      *)
(***************************************************************************)
\* binary.BigEndian.PutUint16/32/64: b[i] = byte(v >> (8*(n-1-i)))
BigEndianPut(buf, v, w) ==
    [i \in 1..Len(buf) |->
        IF i <= w \div 8 THEN ByteAt(v, (w \div 8) - i, w) ELSE buf[i]]

\* binary.BigEndian.Uint16/32/64: b[n-1] | b[n-2]<<8 | ...
BigEndianGet(buf, w) ==
    [j \in 1..NLimbs(w) |-> buf[2 * j - 1] * 256 + buf[2 * j]]

(***************************************************************************)
(* encoding.go: bytes and unsigned integers.                               *)
(***************************************************************************)
PutByte(buf, v) == [buf EXCEPT ![1] = v[1]]

Byte(buf) == <<buf[1]>>

PutUint8(buf, v) == [buf EXCEPT ![1] = v[1] % 256]

Uint8(buf) == Byte(buf)

PutUint16(buf, v) == BigEndianPut(buf, v, 16)

Uint16(buf) == BigEndianGet(buf, 16)

PutUint32(buf, v) == BigEndianPut(buf, v, 32)

Uint32(buf) == BigEndianGet(buf, 32)

PutUint64(buf, v) == BigEndianPut(buf, v, 64)

Uint64(buf) == BigEndianGet(buf, 64)

(***************************************************************************)
(* encoding.go: signed integers.                                           *)
(***************************************************************************)
PutInt8(buf, v) == PutUint8(buf, XorW(v, MinIntW(8), 8))

Int8(buf) == XorW(Uint8(buf), MinIntW(8), 8)

\* PutInt16 without the sign flip
PutInt16_NoFlip(buf, v) == PutUint16(buf, v)

PutInt16(buf, v) == PutUint16(buf, XorW(v, MinIntW(16), 16))

\* Int16 without the sign flip
Int16_NoFlip(buf) == Uint16(buf)

Int16(buf) == XorW(Uint16(buf), MinIntW(16), 16)

PutInt32(buf, v) == PutUint32(buf, XorW(v, MinIntW(32), 32))

Int32(buf) == XorW(Uint32(buf), MinIntW(32), 32)

PutInt64(buf, v) == PutUint64(buf, XorW(v, MinIntW(64), 64))

Int64(buf) == XorW(Uint64(buf), MinIntW(64), 64)

(***************************************************************************)
(* encoding.go: rune, uint and int.  isz is the platform's int size in     *)
(* bytes.                                                                  *)
(***************************************************************************)
PutRune(buf, v) == PutInt32(buf, v)

Rune(buf) == Int32(buf)

PutUint(buf, v, isz) == PutUint64(buf, ZeroExtend(v, 8 * isz, 64))

Uint(buf, isz) == Truncate(Uint64(buf), 64, 8 * isz)

\* PutInt widening the int without its sign
PutInt_ZeroExtended(buf, v, isz) == PutInt64(buf, ZeroExtend(v, 8 * isz, 64))

PutInt(buf, v, isz) == PutInt64(buf, SignExtend(v, 8 * isz, 64))

\* func Int (the name Int is taken by the Integers module)
GetInt(buf, isz) == Truncate(Int64(buf), 64, 8 * isz)

(***************************************************************************)
(* encoding.go: floats.  v is math.Float32bits(v) / math.Float64bits(v).   *)
(***************************************************************************)
\* PutFloat32 flipping the sign bit of negative floats instead of negating
PutFloat32_FlipOnly(buf, v) == PutUint32(buf, XorW(v, MinIntW(32), 32))

PutFloat32(buf, v) ==
    LET n == IF NonNegW(v, 32) THEN AddW(v, MinIntW(32), 32) ELSE NegW(v, 32)
    IN  PutUint32(buf, n)

Float32(buf) ==
    LET n == Uint32(buf)
    IN  IF NonNegW(n, 32) THEN NegW(n, 32) ELSE AddW(n, MinIntW(32), 32)

PutFloat64(buf, v) ==
    LET n == IF NonNegW(v, 64) THEN AddW(v, MinIntW(64), 64) ELSE NegW(v, 64)
    IN  PutUint64(buf, n)

\* Float64 with the two branches exchanged
Float64_Swapped(buf) ==
    LET n == Uint64(buf)
    IN  IF NonNegW(n, 64) THEN AddW(n, MinIntW(64), 64) ELSE NegW(n, 64)

Float64(buf) ==
    LET n == Uint64(buf)
    IN  IF NonNegW(n, 64) THEN NegW(n, 64) ELSE AddW(n, MinIntW(64), 64)

(***************************************************************************)
(* encoding.go: bool and complex.  A bool is <<1>> or <<0>>; a complex     *)
(* value is the bit pattern of its real part followed by the bit pattern   *)
(* of its imaginary part.                                                  *)
(***************************************************************************)
PutBool(buf, v) == [buf EXCEPT ![1] = IF v[1] = 1 THEN 1 ELSE 0]

Bool(buf) == <<IF Byte(buf)[1] = 1 THEN 1 ELSE 0>>

\* PutComplex64 writing the imaginary part first
PutComplex64_ImagFirst(buf, v) ==
    LET b1 == PutFloat32(buf, SubSeq(v, 3, 4))
    IN  SubSeq(b1, 1, 4) \o PutFloat32(SubSeq(b1, 5, 8), SubSeq(v, 1, 2))
            \o SubSeq(b1, 9, Len(b1))

PutComplex64(buf, v) ==
    LET b1 == PutFloat32(buf, SubSeq(v, 1, 2))
    IN  SubSeq(b1, 1, 4) \o PutFloat32(SubSeq(b1, 5, 8), SubSeq(v, 3, 4))
            \o SubSeq(b1, 9, Len(b1))

Complex64(buf) == Float32(buf) \o Float32(SubSeq(buf, 5, 8))

PutComplex128(buf, v) ==
    LET b1 == PutFloat64(buf, SubSeq(v, 1, 4))
    IN  SubSeq(b1, 1, 8) \o PutFloat64(SubSeq(b1, 9, 16), SubSeq(v, 5, 8))
            \o SubSeq(b1, 17, Len(b1))

Complex128(buf) == Float64(buf) \o Float64(SubSeq(buf, 9, 16))

(***************************************************************************)
(* encoding.go: strings.  A string is the sequence of its bytes.           *)
(***************************************************************************)
\* PutString terminating the string with 0xFF
PutString_HighTerminator(buf, v) ==
    [i \in 1..Len(buf) |->
        IF i <= Len(v) THEN v[i] ELSE IF i = Len(v) + 1 THEN 255 ELSE buf[i]]

\* copy(b, []byte(v)); b[len(v)] = nul   (needs len(b) > len(v))
PutString(buf, v) ==
    [i \in 1..Len(buf) |->
        IF i <= Len(v) THEN v[i] ELSE IF i = Len(v) + 1 THEN 0 ELSE buf[i]]


RECURSIVE ScanFrom(_, _)
\* the loop of ScanString, entered with Go index i - 1
ScanFrom(buf, i) ==
    IF i > Len(buf) THEN << >>
    ELSE IF buf[i] = 0 THEN SubSeq(buf, 1, i - 1)
    ELSE ScanFrom(buf, i + 1)

\* ScanString starting its loop one byte late
ScanString_LateStart(buf) == ScanFrom(buf, 2)

ScanString(buf) == ScanFrom(buf, 1)

\* String stopping at the first 0 byte
String_Scanning(buf) == ScanString(buf)

\* string(b[:len(b)-1])   (needs len(b) > 0)
String(buf) == SubSeq(buf, 1, Len(buf) - 1)

(***************************************************************************)
(* The values and buffers the codec is called with.                        *)
(***************************************************************************)
IntKinds ==
    {"uint8", "uint16", "uint32", "uint64", "int8", "int16", "int32", "int64",
     "byte", "rune", "int", "uint"}

SignedKinds == {"int8", "int16", "int32", "int64", "rune", "int"}

FloatKinds == {"float32", "float64"}

Kinds == IntKinds \cup FloatKinds \cup {"string", "complex64", "complex128"}

\* width in bits of a value of kind k where int and uint take isz bytes
Width(k, isz) ==
    CASE k \in {"uint8", "int8", "byte"} -> 8
      [] k \in {"uint16", "int16"} -> 16
      [] k \in {"uint32", "int32", "rune", "float32"} -> 32
      [] k \in {"uint64", "int64", "float64"} -> 64
      [] k \in {"int", "uint"} -> 8 * isz

\* number of bytes the kind's Put function writes for a numeric value
EncSize(k) ==
    CASE k \in {"uint8", "int8", "byte"} -> 1
      [] k \in {"uint16", "int16"} -> 2
      [] k \in {"uint32", "int32", "rune", "float32"} -> 4
      [] k \in {"uint64", "int64", "float64", "int", "uint", "complex64"} -> 8
      [] k = "complex128" -> 16

\* the word of value k, 0 <= k < 256
SmallW(k, w) == [i \in 1..NLimbs(w) |-> IF i = NLimbs(w) THEN k ELSE 0]

\* the word of value 256^k
Pow256W(k, w) ==
    [i \in 1..NLimbs(w) |->
        IF i = NLimbs(w) - (k \div 2) THEN (IF k % 2 = 1 THEN 256 ELSE 1) ELSE 0]

IntAnchors(w) ==
    {ZeroW(w), MinIntW(w)} \cup {Pow256W(k, w) : k \in 1..((w \div 8) - 1)}

IntSamples(w) ==
    UNION {{AddW(x, SmallW(d, w), w), AddW(x, NegW(SmallW(d, w), w), w)} :
              x \in IntAnchors(w), d \in 0..Radius}

\* IEEE 754 layout: 1 sign bit, ExpBits exponent bits, the rest mantissa
ExpBits(w) == IF w = 32 THEN 8 ELSE 11

ExpMax(w) == IF w = 32 THEN 255 ELSE 2047

\* number of mantissa bits held by the top limb
TopMantBits(w) == 15 - ExpBits(w)

TopMantMax(w) == IF w = 32 THEN 127 ELSE 15

\* the bit pattern with sign s, biased exponent e and mantissa limbs m
FloatBits(w, s, e, m) ==
    [i \in 1..NLimbs(w) |->
        IF i = 1 THEN s * 32768 + e * (TopMantMax(w) + 1) + m[1] ELSE m[i]]

MantSamples(w) ==
    UNION {{[i \in 1..NLimbs(w) |-> IF i = NLimbs(w) THEN d ELSE 0],
            [i \in 1..NLimbs(w) |->
                IF i = 1 THEN TopMantMax(w)
                ELSE IF i = NLimbs(w) THEN 65535 - d ELSE 65535]} :
              d \in 0..Radius}

ExpSamples(w) == UNION {{d, ExpMax(w) - d} : d \in 0..Radius}

FloatSamples(w) ==
    {FloatBits(w, s, e, m) : s \in {0, 1}, e \in ExpSamples(w), m \in MantSamples(w)}

StrBytes == {0, 1, 255}

FillBytes == {0, 170}

RECURSIVE SeqsUpTo(_, _)
\* the sequences over S of length at most n
SeqsUpTo(S, n) ==
    IF n = 0 THEN {<< >>}
    ELSE LET shorter == SeqsUpTo(S, n - 1)
         IN  shorter \cup {Append(t, x) : t \in shorter, x \in S}

\* real and imaginary parts of the complex values: 1.0, -2.0, the two zeros
\* and a NaN
ComplexParts(w) ==
    {FloatBits(w, 0, ExpMax(w) \div 2, ZeroW(w)),
     FloatBits(w, 1, (ExpMax(w) \div 2) + 1, ZeroW(w)),
     FloatBits(w, 1, 0, ZeroW(w)),
     FloatBits(w, 0, 0, ZeroW(w)),
     FloatBits(w, 0, ExpMax(w), OneW(w))}

Values(k, isz) ==
    IF k = "string" THEN SeqsUpTo(StrBytes, MaxStrLen)
    ELSE IF k = "complex64"
    THEN {re \o im : re \in ComplexParts(32), im \in ComplexParts(32)}
    ELSE IF k = "complex128"
    THEN {re \o im : re \in ComplexParts(64), im \in ComplexParts(64)}
    ELSE IF k \in FloatKinds THEN FloatSamples(Width(k, isz))
    ELSE IntSamples(Width(k, isz))

\* make([]byte, n)
Make(n) == [i \in 1..n |-> 0]

\* the buffers the first value is encoded into: large enough for the value,
\* with arbitrary contents, and for a string with more bytes after it
Buffers(k, v) ==
    IF k = "string"
    THEN {[i \in 1..(Len(v) + 1) |-> f] \o t :
              f \in FillBytes, t \in SeqsUpTo(StrBytes, MaxTail)}
    ELSE {[i \in 1..EncSize(k) |-> f] : f \in FillBytes}

Init ==
    /\ pc = "input"
    /\ kind \in Kinds
    /\ intSize \in (IF kind \in {"int", "uint"} THEN {4, 8} ELSE {8})
    /\ a \in Values(kind, intSize)
    /\ b \in Values(kind, intSize)
    /\ ba0 \in Buffers(kind, a)
    /\ ba = ba0
    /\ bb = Make(IF kind = "string" THEN Len(b) + 1 ELSE EncSize(kind))
    /\ off = 0
    /\ lim = Len(ba0)
    /\ ra = << >>
    /\ Idle("generic") /\ Idle("key") /\ Idle("concurrent")

(***************************************************************************)
(* The calls.  Both values are encoded, each into its own buffer; then the *)
(* first buffer is decoded.                                                *)
(***************************************************************************)
Encode(k, ea, eb) ==
    /\ pc = "input"
    /\ kind = k
    /\ ba' = ea
    /\ bb' = eb
    /\ pc' = "encoded"
    /\ UNCHANGED <<kind, intSize, a, b, ba0, off, lim, ra, gvars, kvars, cvars>>

Decode(k, r) ==
    /\ pc = "encoded"
    /\ kind = k
    /\ ra' = r
    /\ pc' = "decoded"
    /\ UNCHANGED <<kind, intSize, a, b, ba0, ba, bb, off, lim, gvars, kvars, cvars>>

CallPutByte == Encode("byte", PutByte(ba, a), PutByte(bb, b))
CallByte == Decode("byte", Byte(ba))
CallPutUint8 == Encode("uint8", PutUint8(ba, a), PutUint8(bb, b))
CallUint8 == Decode("uint8", Uint8(ba))
CallPutUint16 == Encode("uint16", PutUint16(ba, a), PutUint16(bb, b))
CallUint16 == Decode("uint16", Uint16(ba))
CallPutUint32 == Encode("uint32", PutUint32(ba, a), PutUint32(bb, b))
CallUint32 == Decode("uint32", Uint32(ba))
CallPutUint64 == Encode("uint64", PutUint64(ba, a), PutUint64(bb, b))
CallUint64 == Decode("uint64", Uint64(ba))
CallPutInt8 == Encode("int8", PutInt8(ba, a), PutInt8(bb, b))
CallInt8 == Decode("int8", Int8(ba))
CallPutInt16 == Encode("int16", PutInt16(ba, a), PutInt16(bb, b))
CallInt16 == Decode("int16", Int16(ba))
CallPutInt32 == Encode("int32", PutInt32(ba, a), PutInt32(bb, b))
CallInt32 == Decode("int32", Int32(ba))
CallPutInt64 == Encode("int64", PutInt64(ba, a), PutInt64(bb, b))
CallInt64 == Decode("int64", Int64(ba))
CallPutRune == Encode("rune", PutRune(ba, a), PutRune(bb, b))
CallRune == Decode("rune", Rune(ba))
CallPutUint == Encode("uint", PutUint(ba, a, intSize), PutUint(bb, b, intSize))
CallUint == Decode("uint", Uint(ba, intSize))
CallPutInt == Encode("int", PutInt(ba, a, intSize), PutInt(bb, b, intSize))
CallInt == Decode("int", GetInt(ba, intSize))
CallPutFloat32 == Encode("float32", PutFloat32(ba, a), PutFloat32(bb, b))
CallFloat32 == Decode("float32", Float32(ba))
CallPutFloat64 == Encode("float64", PutFloat64(ba, a), PutFloat64(bb, b))
CallFloat64 == Decode("float64", Float64(ba))
CallPutComplex64 == Encode("complex64", PutComplex64(ba, a), PutComplex64(bb, b))
CallComplex64 == Decode("complex64", Complex64(ba))
CallPutComplex128 == Encode("complex128", PutComplex128(ba, a), PutComplex128(bb, b))
CallComplex128 == Decode("complex128", Complex128(ba))
CallPutString == Encode("string", PutString(ba, a), PutString(bb, b))

\* String(b[:n]): on the bytes PutString wrote, or on the whole buffer
CallString ==
    /\ pc = "encoded"
    /\ kind = "string"
    /\ \E n \in {Len(a) + 1, Len(ba)} :
          /\ lim' = n
          /\ ra' = String(SubSeq(ba, 1, n))
    /\ pc' = "decoded"
    /\ UNCHANGED <<kind, intSize, a, b, ba0, ba, bb, off, gvars, kvars, cvars>>

\* ScanString(b[o:]): from the start of the encoded string, or on the bytes
\* that follow it
CallScanString ==
    /\ pc = "encoded"
    /\ kind = "string"
    /\ \E o \in {0, Len(a) + 1} :
          /\ off' = o
          /\ ra' = ScanString(SubSeq(ba, o + 1, Len(ba)))
    /\ pc' = "scanned"
    /\ UNCHANGED <<kind, intSize, a, b, ba0, ba, bb, lim, gvars, kvars, cvars>>

Next ==
    \/ CallPutByte \/ CallByte
    \/ CallPutUint8 \/ CallUint8
    \/ CallPutUint16 \/ CallUint16
    \/ CallPutUint32 \/ CallUint32
    \/ CallPutUint64 \/ CallUint64
    \/ CallPutInt8 \/ CallInt8
    \/ CallPutInt16 \/ CallInt16
    \/ CallPutInt32 \/ CallInt32
    \/ CallPutInt64 \/ CallInt64
    \/ CallPutRune \/ CallRune
    \/ CallPutUint \/ CallUint
    \/ CallPutInt \/ CallInt
    \/ CallPutFloat32 \/ CallFloat32
    \/ CallPutFloat64 \/ CallFloat64
    \/ CallPutComplex64 \/ CallComplex64
    \/ CallPutComplex128 \/ CallComplex128
    \/ CallPutString \/ CallString \/ CallScanString

Spec == Init /\ [][Next]_vars

(***************************************************************************)
(* Orders the properties are stated with.                                  *)
(***************************************************************************)
RECURSIVE LexCmp(_, _, _)
\* -1, 0 or 1: lexicographic comparison of two sequences of integers from
\* index i on, a proper prefix sorting first
LexCmp(x, y, i) ==
    IF i > Len(x) /\ i > Len(y) THEN 0
    ELSE IF i > Len(x) THEN -1
    ELSE IF i > Len(y) THEN 1
    ELSE IF x[i] < y[i] THEN -1
    ELSE IF x[i] > y[i] THEN 1
    ELSE LexCmp(x, y, i + 1)

\* bytes.Compare, the comparison a sorted store applies to keys
CompareBytes(x, y) == LexCmp(x, y, 1)

\* bytewise comparison of two strings
CompareStrings(x, y) == LexCmp(x, y, 1)

\* the limbs of a word with the top limb read as a signed number, so that
\* the word's value is the base-2^16 (or base-2^8) number they spell
SignedLimbs(x, w) ==
    [i \in 1..Len(x) |->
        IF i = 1 /\ x[1] >= LimbMod(w) \div 2 THEN x[1] - LimbMod(w) ELSE x[i]]

\* numeric comparison of two integers of kind k
IntCmp(x, y, k, isz) ==
    IF k \in SignedKinds
    THEN LexCmp(SignedLimbs(x, Width(k, isz)), SignedLimbs(y, Width(k, isz)), 1)
    ELSE LexCmp(x, y, 1)

IsNegative(x, k, isz) == k \in SignedKinds /\ ~NonNegW(x, Width(k, isz))

\* the bytes that spell the unsigned word u in base 256, most significant first
MSBFirst(u, w) ==
    IF w = 8 THEN <<u[1]>>
    ELSE [i \in 1..(2 * Len(u)) |->
            IF i % 2 = 1 THEN u[(i + 1) \div 2] \div 256 ELSE u[i \div 2] % 256]

(***************************************************************************)
(* Integers.                                                               *)
(***************************************************************************)
\* C1: once two integers of the same type are encoded, the bytewise
\* comparison of the two encodings has the sign of the numeric comparison of
\* the two values; a negative value encodes below a non-negative one and
\* equal values encode to equal bytes.
C1_IntOrderPreserved ==
    (pc = "encoded" /\ kind \in IntKinds) =>
        /\ CompareBytes(ba, bb) = IntCmp(a, b, kind, intSize)
        /\ (IsNegative(a, kind, intSize) /\ ~IsNegative(b, kind, intSize)
               /\ kind \in SignedKinds) => CompareBytes(ba, bb) = -1
        /\ (a = b) => (ba = bb)

\* a negative and a non-negative int16 have been encoded
C1_Witness ==
    /\ pc = "encoded"
    /\ kind = "int16"
    /\ a = AllOnesW(16)
    /\ b = OneW(16)
    /\ CompareBytes(ba, bb) = -1

\* C2: decoding the bytes a Put function produced, with the decode function
\* of the same integer type, returns the value that was encoded.
C2_IntRoundTrip ==
    (pc = "decoded" /\ kind \in IntKinds) => ra = a

\* the minimum int16 has been encoded and decoded
C2_Witness ==
    /\ pc = "decoded"
    /\ kind = "int16"
    /\ a = MinIntW(16)
    /\ ba = <<0, 0>>
    /\ ra = a

\* C7: a signed integer is stored as the unsigned value obtained by adding
\* the type's minimum modulo 2^N, most significant byte first: the minimum
\* is all 0x00, zero is 0x80 then 0x00s, the maximum is all 0xFF; int and
\* uint are stored in the 8-byte form of their 64-bit value, so PutInt(1)
\* is 0x80,0,0,0,0,0,0,0x01.
C7_SignedLayout ==
    (pc = "encoded" /\ kind \in SignedKinds \cup {"uint"}) =>
        LET w == Width(kind, intSize)
            n == EncSize(kind)
        IN  /\ kind \notin {"int", "uint"} =>
                /\ ba = MSBFirst(AddW(a, MinIntW(w), w), w)
                /\ (a = MinIntW(w)) => ba = [i \in 1..n |-> 0]
                /\ (a = ZeroW(w)) => ba = [i \in 1..n |-> IF i = 1 THEN 128 ELSE 0]
                /\ (a = MaxIntW(w)) => ba = [i \in 1..n |-> 255]
            /\ kind = "int" =>
                /\ Len(ba) = 8
                /\ ba = MSBFirst(AddW(SignExtend(a, w, 64), MinIntW(64), 64), 64)
                /\ (a = ZeroW(w)) => ba = <<128, 0, 0, 0, 0, 0, 0, 0>>
                /\ (a = OneW(w)) => ba = <<128, 0, 0, 0, 0, 0, 0, 1>>
                /\ (a = AllOnesW(w)) => ba = <<127, 255, 255, 255, 255, 255, 255, 255>>
            /\ kind = "uint" =>
                /\ Len(ba) = 8
                /\ ba = MSBFirst(ZeroExtend(a, w, 64), 64)
                /\ (a = OneW(w)) => ba = <<0, 0, 0, 0, 0, 0, 0, 1>>

\* int(1) has been encoded on a platform whose int is 32 bits wide, into a
\* buffer that held other bytes
C7_Witness ==
    /\ pc = "encoded"
    /\ kind = "int"
    /\ intSize = 4
    /\ a = OneW(32)
    /\ ba0 = [i \in 1..8 |-> 170]
    /\ ba = <<128, 0, 0, 0, 0, 0, 0, 1>>

(***************************************************************************)
(* Floats.                                                                 *)
(***************************************************************************)
\* the bit pattern with the sign bit cleared
Magnitude(x) == [i \in 1..Len(x) |-> IF i = 1 THEN x[1] % 32768 ELSE x[i]]

SignBit(x) == x[1] \div 32768

ZeroMant(w) == [i \in 1..NLimbs(w) |-> 0]

PosZero(w) == FloatBits(w, 0, 0, ZeroMant(w))

NegZero(w) == FloatBits(w, 1, 0, ZeroMant(w))

PosInf(w) == FloatBits(w, 0, ExpMax(w), ZeroMant(w))

NegInf(w) == FloatBits(w, 1, ExpMax(w), ZeroMant(w))

\* math.MaxFloat32, math.MaxFloat64
MaxFinite(w) ==
    FloatBits(w, 0, ExpMax(w) - 1,
              [i \in 1..NLimbs(w) |-> IF i = 1 THEN TopMantMax(w) ELSE 65535])

\* math.SmallestNonzeroFloat32/64, a subnormal
SmallestNonzero(w) == FloatBits(w, 0, 0, OneW(w))

\* exponent all ones and mantissa not zero
IsNaN(x, w) == LexCmp(Magnitude(x), PosInf(w), 1) = 1

\* numeric comparison of two floats that are not NaN: IEEE 754 values are
\* sign and magnitude, the magnitude growing with its bit pattern, and the
\* two zeros are equal
FloatCmp(x, y) ==
    LET zx == Magnitude(x) = ZeroW(16 * Len(x))
        zy == Magnitude(y) = ZeroW(16 * Len(y))
    IN  IF zx /\ zy THEN 0
        ELSE IF SignBit(x) # SignBit(y) THEN (IF SignBit(x) = 1 THEN -1 ELSE 1)
        ELSE IF SignBit(x) = 0 THEN LexCmp(Magnitude(x), Magnitude(y), 1)
        ELSE LexCmp(Magnitude(y), Magnitude(x), 1)

FloatWidth == Width(kind, intSize)

C4_InfinitiesEncodeEqual ==
    (pc = "encoded" /\ kind \in FloatKinds
        /\ a = NegInf(FloatWidth) /\ b = PosInf(FloatWidth)) => ba = bb

\* C5: the encoding of every NaN bit pattern compares strictly greater than
\* the encoding of +infinity.
C5_NaNAfterInfinity ==
    (pc = "encoded" /\ kind \in FloatKinds
        /\ IsNaN(a, FloatWidth) /\ b = PosInf(FloatWidth)) =>
        CompareBytes(ba, bb) = 1

\* C6: decoding an encoded float returns the bit pattern that was encoded,
\* except that negative zero comes back as positive zero; so a float that
\* is not NaN comes back numerically equal.
C6_FloatRoundTrip ==
    (pc = "decoded" /\ kind \in FloatKinds) =>
        /\ (a # NegZero(FloatWidth)) => ra = a
        /\ (a = NegZero(FloatWidth)) => ra = PosZero(FloatWidth)
        /\ ~IsNaN(a, FloatWidth) => FloatCmp(ra, a) = 0

\* a negative float64 has been encoded and decoded
C6_Witness ==
    /\ pc = "decoded"
    /\ kind = "float64"
    /\ a = FloatBits(64, 1, ExpMax(64) - 1, OneW(64))
    /\ ra = a

(***************************************************************************)
(* Strings.                                                                *)
(***************************************************************************)
NoNul(x) == \A i \in 1..Len(x) : x[i] # 0

\* the bytes of the first buffer that PutString is to write
Encoded(buf, v) == SubSeq(buf, 1, Len(v) + 1)

\* C8: for two strings without a 0 byte, the bytewise comparison of their
\* encodings has the sign of the bytewise comparison of the strings, also
\* when one string is a proper prefix of the other.
C8_StringOrderPreserved ==
    (pc = "encoded" /\ kind = "string" /\ NoNul(a) /\ NoNul(b)) =>
        CompareBytes(Encoded(ba, a), bb) = CompareStrings(a, b)

\* a string and a longer string it is a prefix of have been encoded
C8_Witness ==
    /\ pc = "encoded"
    /\ kind = "string"
    /\ a = <<1, 255>>
    /\ b = <<1>>
    /\ bb = <<1, 0>>
    /\ CompareBytes(Encoded(ba, a), bb) = 1

\* C9: PutString writes the bytes of v and then one 0 byte, len(v)+1 bytes
\* in all, and leaves the rest of the buffer alone; String applied to those
\* len(v)+1 bytes returns v, also when v contains 0 bytes.
C9_StringLayoutAndRoundTrip ==
    (pc # "input" /\ kind = "string") =>
        /\ Len(ba) = Len(ba0)
        /\ \A i \in 1..Len(ba) :
              ba[i] = (IF i <= Len(a) THEN a[i]
                       ELSE IF i = Len(a) + 1 THEN 0 ELSE ba0[i])
        /\ (pc = "decoded" /\ lim = Len(a) + 1) => ra = a

\* a string holding a 0 byte has been encoded in front of other bytes and
\* decoded from its len(v)+1 bytes
C9_Witness ==
    /\ pc = "decoded"
    /\ kind = "string"
    /\ a = <<0, 1>>
    /\ ba0 = <<170, 170, 170, 255, 1>>
    /\ ba = <<0, 1, 0, 255, 1>>
    /\ lim = 3
    /\ ra = a

\* the slice ScanString was given
Scanned == SubSeq(ba, off + 1, Len(ba))

\* C10: ScanString returns the bytes before the first 0 byte of its
\* argument, and the empty string when the argument is empty or holds no 0
\* byte; so a string without a 0 byte comes back from its encoding whatever
\* bytes follow the encoding.
C10_ScanString ==
    (pc = "scanned") =>
        /\ (\E i \in 1..Len(Scanned) : Scanned[i] = 0) =>
              /\ Len(ra) < Len(Scanned)
              /\ ra = SubSeq(Scanned, 1, Len(ra))
              /\ Scanned[Len(ra) + 1] = 0
              /\ NoNul(ra)
        /\ NoNul(Scanned) => ra = << >>
        /\ (off = 0 /\ NoNul(a)) => ra = a

\* a string has been encoded in front of other bytes, a 0 byte among them,
\* and scanned from the start of the buffer
C10_Witness ==
    /\ pc = "scanned"
    /\ off = 0
    /\ a = <<1, 255>>
    /\ Len(ba) = 5
    /\ ba[4] = 1
    /\ ba[5] = 0
    /\ ra = a

(***************************************************************************)
(* Go values as package reflect shows them.  A value has a kind, is of a   *)
(* named (aliased) type or not, and holds either the word or bytes of a    *)
(* scalar (val) or parts (sub): the fields of a struct, each exported or   *)
(* not, or the one pointee of a pointer that is not nil.                   *)
(***************************************************************************)
Val(k, named, val, sub) == [kind |-> k, named |-> named, val |-> val, sub |-> sub]

Field(exp, v) == [exp |-> exp, v |-> v]

\* reflect.ValueOf(nil) and the Elem of a nil pointer: the zero Value
Invalid == Val("invalid", FALSE, << >>, << >>)

Scalar(k, val) == Val(k, FALSE, val, << >>)

\* the same value as a value of a named type (type aliasedInt int)
Alias(v) == [v EXCEPT !.named = TRUE]

PtrTo(v) == Val("ptr", FALSE, << >>, <<Field(TRUE, v)>>)

NilPtr == Val("ptr", FALSE, << >>, << >>)

\* a map, a channel, a func or an interface; k is its kind
Other(k) == Val(k, FALSE, << >>, << >>)

Struct(fs) == Val("struct", TRUE, << >>, fs)

\* reflect.Value.Elem of a pointer
Elem(v) == IF v.sub = << >> THEN Invalid ELSE v.sub[1].v

\* reflect.Indirect
Indirect(v) == IF v.kind = "ptr" THEN Elem(v) ELSE v

\* the kinds size, putReflect and _reflect end with int(v.Type().Size()) for
FixedKinds ==
    {"uint8", "uint16", "uint32", "uint64", "int8", "int16", "int32", "int64",
     "float32", "float64", "complex64", "complex128"}

\* reflect.Type.Size of the fixed kinds
TypeSize(k) ==
    CASE k \in {"uint8", "int8"} -> 1
      [] k \in {"uint16", "int16"} -> 2
      [] k \in {"uint32", "int32", "float32"} -> 4
      [] k \in {"uint64", "int64", "float64", "complex64"} -> 8
      [] k = "complex128" -> 16

(***************************************************************************)
(* lex.go: Size.                                                           *)
(***************************************************************************)
RECURSIVE size(_)
RECURSIVE sizeFields(_, _, _)
\* the loop of size over the fields of a struct, at field i with sum so far
\* the loop of size passing over a field that is not exported
sizeFields_SkipsUnexported(fs, i, sum) ==
    IF i > Len(fs) THEN (IF sum = 0 THEN -1 ELSE sum)
    ELSE IF ~fs[i].exp THEN sizeFields(fs, i + 1, sum)
    ELSE LET s == size(fs[i].v)
         IN  IF s < 0 THEN -1 ELSE sizeFields(fs, i + 1, sum + s)

sizeFields(fs, i, sum) ==
    IF i > Len(fs) THEN (IF sum = 0 THEN -1 ELSE sum)
    ELSE LET s == size(fs[i].v)
         IN  IF s < 0 THEN -1 ELSE sizeFields(fs, i + 1, sum + s)

\* size counting a string without its terminator
size_NoTerminator(v0) ==
    LET v == Indirect(v0)
    IN  CASE v.kind = "string" -> Len(v.val)
          [] v.kind = "bool" -> 1
          [] v.kind \in {"uint", "int"} -> 8
          [] v.kind \in FixedKinds -> TypeSize(v.kind)
          [] v.kind = "struct" -> sizeFields(v.sub, 1, 0)
          [] OTHER -> -1

size(v0) ==
    LET v == Indirect(v0)
    IN  CASE v.kind = "string" -> Len(v.val) + 1
          [] v.kind = "bool" -> 1
          [] v.kind \in {"uint", "int"} -> 8
          [] v.kind \in FixedKinds -> TypeSize(v.kind)
          [] v.kind = "struct" -> sizeFields(v.sub, 1, 0)
          [] OTHER -> -1

Size(d) == size(d)

(***************************************************************************)
(* lex.go: PutReflect.  A write that does not fit its slice panics (Go's   *)
(* index out of range), leaving what was written before it.                *)
(***************************************************************************)
\* what putReflect and _reflect hand back: the count n (or -1), the buffer
\* or the value as the call left it, and whether the call panicked
Out(n, x, panic) == [n |-> n, x |-> x, panic |-> panic]

\* the Put call of putReflect's case for kind v.kind, on a slice that fits
PutKind(buf, v, isz) ==
    CASE v.kind = "string" -> PutString(buf, v.val)
      [] v.kind = "bool" -> PutBool(buf, v.val)
      [] v.kind = "int" -> PutInt(buf, v.val, isz)
      [] v.kind = "uint" -> PutUint(buf, v.val, isz)
      [] v.kind = "int8" -> PutInt8(buf, v.val)
      [] v.kind = "uint8" -> PutUint8(buf, v.val)
      [] v.kind = "int16" -> PutInt16(buf, v.val)
      [] v.kind = "uint16" -> PutUint16(buf, v.val)
      [] v.kind = "int32" -> PutInt32(buf, v.val)
      [] v.kind = "uint32" -> PutUint32(buf, v.val)
      [] v.kind = "int64" -> PutInt64(buf, v.val)
      [] v.kind = "uint64" -> PutUint64(buf, v.val)
      [] v.kind = "float32" -> PutFloat32(buf, v.val)
      [] v.kind = "float64" -> PutFloat64(buf, v.val)
      [] v.kind = "complex64" -> PutComplex64(buf, v.val)
      [] v.kind = "complex128" -> PutComplex128(buf, v.val)

\* putReflect returning int(v.Type().Size()) for int and uint as well
PutCount_TypeSize(v) ==
    CASE v.kind = "string" -> Len(v.val) + 1
      [] v.kind = "bool" -> 1
      [] v.kind \in {"int", "uint"} -> Len(v.val) * 2
      [] v.kind \in FixedKinds -> TypeSize(v.kind)

\* the count putReflect returns after the Put call of a scalar kind
PutCount(v) ==
    CASE v.kind = "string" -> Len(v.val) + 1
      [] v.kind = "bool" -> 1
      [] v.kind \in {"int", "uint"} -> 8
      [] v.kind \in FixedKinds -> TypeSize(v.kind)

\* the slice as a Put call leaves it when the slice is too short and the
\* call panics: PutString has copied what fits, PutComplex has written the
\* real part if that fits, the other calls have written nothing
PutPanicked(buf, v) ==
    CASE v.kind = "string" -> [i \in 1..Len(buf) |-> v.val[i]]
      [] v.kind = "complex64" /\ Len(buf) >= 4 -> PutFloat32(buf, SubSeq(v.val, 1, 2))
      [] v.kind = "complex128" /\ Len(buf) >= 8 -> PutFloat64(buf, SubSeq(v.val, 1, 4))
      [] OTHER -> buf

RECURSIVE putReflect(_, _, _)
RECURSIVE putFields(_, _, _, _, _)
\* the loop of putReflect over the fields of a struct, at field i with sum
\* bytes written so far
putFields(buf, fs, i, sum, isz) ==
    IF i > Len(fs) THEN Out(IF sum = 0 THEN -1 ELSE sum, buf, FALSE)
    ELSE LET r == putReflect(SubSeq(buf, sum + 1, Len(buf)), fs[i].v, isz)
             nbuf == SubSeq(buf, 1, sum) \o r.x
         IN  IF r.panic THEN Out(-1, nbuf, TRUE)
             ELSE IF r.n < 0 THEN Out(-1, nbuf, FALSE)
             ELSE putFields(nbuf, fs, i + 1, sum + r.n, isz)

putReflect(buf, v0, isz) ==
    LET v == Indirect(v0)
    IN  CASE v.kind \in FixedKinds \cup {"string", "bool", "int", "uint"} ->
                 IF Len(buf) >= PutCount(v)
                 THEN Out(PutCount(v), PutKind(buf, v, isz), FALSE)
                 ELSE Out(-1, PutPanicked(buf, v), TRUE)
          [] v.kind = "struct" -> putFields(buf, v.sub, 1, 0, isz)
          [] OTHER -> Out(-1, buf, FALSE)

\* how a call ended
Ended(r) == IF r.panic THEN "panic" ELSE IF r.n < 0 THEN "error" ELSE "ok"

PutReflect(buf, d, isz) ==
    LET r == putReflect(buf, d, isz)
    IN  [res |-> Ended(r), buf |-> r.x]

(***************************************************************************)
(* lex.go: Reflect.  A read past the end of its slice panics.              *)
(***************************************************************************)
\* _reflect reading a string with String instead of ScanString
GetKind_WholeString(buf, k, isz) ==
    CASE k = "string" -> String(buf)
      [] k = "bool" -> Bool(buf)
      [] k = "int" -> GetInt(buf, isz)
      [] k = "uint" -> Uint(buf, isz)
      [] k = "int8" -> Int8(buf)
      [] k = "uint8" -> Uint8(buf)
      [] k = "int16" -> Int16(buf)
      [] k = "uint16" -> Uint16(buf)
      [] k = "int32" -> Int32(buf)
      [] k = "uint32" -> Uint32(buf)
      [] k = "int64" -> Int64(buf)
      [] k = "uint64" -> Uint64(buf)
      [] k = "float32" -> Float32(buf)
      [] k = "float64" -> Float64(buf)
      [] k = "complex64" -> Complex64(buf)
      [] k = "complex128" -> Complex128(buf)

\* the decode call of _reflect's case for kind k, on a slice that fits
GetKind(buf, k, isz) ==
    CASE k = "string" -> ScanString(buf)
      [] k = "bool" -> Bool(buf)
      [] k = "int" -> GetInt(buf, isz)
      [] k = "uint" -> Uint(buf, isz)
      [] k = "int8" -> Int8(buf)
      [] k = "uint8" -> Uint8(buf)
      [] k = "int16" -> Int16(buf)
      [] k = "uint16" -> Uint16(buf)
      [] k = "int32" -> Int32(buf)
      [] k = "uint32" -> Uint32(buf)
      [] k = "int64" -> Int64(buf)
      [] k = "uint64" -> Uint64(buf)
      [] k = "float32" -> Float32(buf)
      [] k = "float64" -> Float64(buf)
      [] k = "complex64" -> Complex64(buf)
      [] k = "complex128" -> Complex128(buf)

\* the bytes the decode call of kind k reads
GetNeeds(k) ==
    CASE k = "string" -> 0
      [] k = "bool" -> 1
      [] k \in {"int", "uint"} -> 8
      [] k \in FixedKinds -> TypeSize(k)

RECURSIVE _reflect(_, _, _)
RECURSIVE reflectFields(_, _, _, _, _)
\* the loop of _reflect stepping over the bytes of a field it does not set
reflectFields_Padding(buf, v, i, sum, isz) ==
    IF i > Len(v.sub) THEN Out(IF sum = 0 THEN -1 ELSE sum, v, FALSE)
    ELSE IF ~v.sub[i].exp
    THEN reflectFields(buf, v, i + 1, sum + size(v.sub[i].v), isz)
    ELSE IF sum > Len(buf) THEN Out(-1, v, TRUE)
    ELSE LET r == _reflect(SubSeq(buf, sum + 1, Len(buf)), v.sub[i].v, isz)
             nv == [v EXCEPT !.sub[i].v = r.x]
         IN  IF r.panic THEN Out(-1, nv, TRUE)
             ELSE IF r.n < 0 THEN Out(-1, nv, FALSE)
             ELSE reflectFields(buf, nv, i + 1, sum + r.n, isz)

\* the loop of _reflect over the fields of the struct v, at field i with sum
\* bytes read so far; b[sum:] panics when sum is past the end of b
reflectFields(buf, v, i, sum, isz) ==
    IF i > Len(v.sub) THEN Out(IF sum = 0 THEN -1 ELSE sum, v, FALSE)
    ELSE IF ~v.sub[i].exp THEN reflectFields(buf, v, i + 1, sum, isz)
    ELSE IF sum > Len(buf) THEN Out(-1, v, TRUE)
    ELSE LET r == _reflect(SubSeq(buf, sum + 1, Len(buf)), v.sub[i].v, isz)
             nv == [v EXCEPT !.sub[i].v = r.x]
         IN  IF r.panic THEN Out(-1, nv, TRUE)
             ELSE IF r.n < 0 THEN Out(-1, nv, FALSE)
             ELSE reflectFields(buf, nv, i + 1, sum + r.n, isz)

\* _reflect giving a record back as it got it when a field fails
_reflect_Restoring(buf, v, isz) ==
    CASE v.kind \in FixedKinds \cup {"string", "bool", "int", "uint"} ->
             IF Len(buf) >= GetNeeds(v.kind)
             THEN LET x == GetKind(buf, v.kind, isz)
                  IN  Out(IF v.kind = "string" THEN Len(x) + 1 ELSE PutCount(v),
                          [v EXCEPT !.val = x], FALSE)
             ELSE Out(-1, v, TRUE)
      [] v.kind = "struct" ->
             LET r == reflectFields(buf, v, 1, 0, isz)
             IN  IF r.n < 0 THEN Out(-1, v, r.panic) ELSE r
      [] OTHER -> Out(-1, v, FALSE)

_reflect(buf, v, isz) ==
    CASE v.kind \in FixedKinds \cup {"string", "bool", "int", "uint"} ->
             IF Len(buf) >= GetNeeds(v.kind)
             THEN LET x == GetKind(buf, v.kind, isz)
                  IN  Out(IF v.kind = "string" THEN Len(x) + 1 ELSE PutCount(v),
                          [v EXCEPT !.val = x], FALSE)
             ELSE Out(-1, v, TRUE)
      [] v.kind = "struct" -> reflectFields(buf, v, 1, 0, isz)
      [] OTHER -> Out(-1, v, FALSE)

\* Reflect without its test for a pointer: v.Elem() panics on a value that
\* is no pointer
Reflect_NoPtrTest(buf, d, isz) ==
    IF d.kind # "ptr" THEN [res |-> "panic", data |-> d]
    ELSE LET v == Elem(d)
         IN  IF v.kind = "string"
             THEN IF Len(buf) = 0 THEN [res |-> "panic", data |-> d]
                  ELSE [res |-> "ok", data |-> PtrTo([v EXCEPT !.val = String(buf)])]
             ELSE LET r == _reflect(buf, v, isz)
                  IN  [res |-> Ended(r),
                       data |-> IF d.sub = << >> THEN d ELSE PtrTo(r.x)]

\* Reflect returns how the call ended and the destination as it left it
Reflect(buf, d, isz) ==
    IF d.kind # "ptr" THEN [res |-> "error", data |-> d]
    ELSE LET v == Elem(d)
         IN  IF v.kind = "string"
             THEN IF Len(buf) = 0 THEN [res |-> "panic", data |-> d]
                  ELSE [res |-> "ok", data |-> PtrTo([v EXCEPT !.val = String(buf)])]
             ELSE LET r == _reflect(buf, v, isz)
                  IN  [res |-> Ended(r),
                       data |-> IF d.sub = << >> THEN d ELSE PtrTo(r.x)]

(***************************************************************************)
(* lex.go: Key, and MustKey as the specification describes it.             *)
(***************************************************************************)
RECURSIVE SumSizes(_, _)
\* the first loop of Key from argument i on: -1 once an argument has no size
SumSizes(ds, i) ==
    IF i > Len(ds) THEN 0
    ELSE LET n == Size(ds[i])
             rest == SumSizes(ds, i + 1)
         IN  IF n < 0 \/ rest < 0 THEN -1 ELSE n + rest

RECURSIVE KeyLoop(_, _, _, _, _)
\* the second loop of Key returning after its first round
KeyLoop_FirstOnly(buf, ds, i, offset, isz) ==
    IF i > Len(ds) THEN [res |-> "ok", nil |-> FALSE, b |-> buf]
    ELSE LET r == PutReflect(SubSeq(buf, offset + 1, Len(buf)), ds[i], isz)
             nbuf == SubSeq(buf, 1, offset) \o r.buf
         IN  IF r.res = "panic" THEN [res |-> "panic", nil |-> TRUE, b |-> << >>]
             ELSE [res |-> "ok", nil |-> FALSE, b |-> nbuf]

\* the second loop of Key at argument i: PutReflect(b[offset:], d), whose
\* error is dropped, then offset += Size(d)
KeyLoop(buf, ds, i, offset, isz) ==
    IF i > Len(ds) THEN [res |-> "ok", nil |-> FALSE, b |-> buf]
    ELSE LET r == PutReflect(SubSeq(buf, offset + 1, Len(buf)), ds[i], isz)
             nbuf == SubSeq(buf, 1, offset) \o r.buf
         IN  IF r.res = "panic" THEN [res |-> "panic", nil |-> TRUE, b |-> << >>]
             ELSE KeyLoop(nbuf, ds, i + 1, offset + Size(ds[i]), isz)

\* Key without its test for an empty argument list
Key_NoEmptyTest(ds, isz) ==
    IF SumSizes(ds, 1) < 0
    THEN [res |-> "error", nil |-> TRUE, b |-> << >>]
    ELSE KeyLoop(Make(SumSizes(ds, 1)), ds, 1, 0, isz)

\* res is how the call ended, nil whether the returned slice is nil, b the
\* returned bytes
Key(ds, isz) ==
    IF Len(ds) = 0 \/ SumSizes(ds, 1) < 0
    THEN [res |-> "error", nil |-> TRUE, b |-> << >>]
    ELSE KeyLoop(Make(SumSizes(ds, 1)), ds, 1, 0, isz)

\* MustKey handing back what Key returned
MustKey_NoPanic(ds, isz) == Key(ds, isz)

\* MustKey: Key, with an error turned into a panic
MustKey(ds, isz) ==
    LET r == Key(ds, isz)
    IN  IF r.res = "error" THEN [res |-> "panic", nil |-> TRUE, b |-> << >>] ELSE r

(***************************************************************************)
(* The values the generic codec is called with.                            *)
(***************************************************************************)
MaxFields == 2

\* size of the buffer the tests hand to a call they expect to fail
ScratchLen == 16

\* the kinds of reflect that stand for the kinds of the primitive codec
ScalarKinds == FixedKinds \cup {"int", "uint"}

ScalarValues(k, isz) == IF k = "bool" THEN {<<0>>, <<1>>} ELSE Values(k, isz)

Scalars(isz) ==
    {Scalar(k, x) : k \in {"string"}, x \in ScalarValues("string", isz)}
    \cup UNION {{Scalar(k, x) : x \in ScalarValues(k, isz)} : k \in ScalarKinds \cup {"bool"}}

\* the int 42, the string "\x01\xff", the float32 -2.0 and the int16 -32767
Int42(isz) == Scalar("int", SmallW(42, 8 * isz))
StrAB == Scalar("string", <<1, 255>>)
FloatM2 == Scalar("float32", FloatBits(32, 1, 128, ZeroW(32)))
Int16M == Scalar("int16", <<32769>>)

\* struct { X int16; Y string }
Inner == Struct(<<Field(TRUE, Int16M), Field(TRUE, Scalar("string", <<255>>))>>)

\* the fields records are made of: exported fields of supported kinds, a
\* nested record, a pointer, unexported fields, and fields no encoding
\* exists for (a map, an interface, a record without fields)
FieldPool(isz) ==
    {Field(TRUE, Int42(isz)), Field(TRUE, StrAB), Field(TRUE, FloatM2),
     Field(TRUE, Inner), Field(TRUE, PtrTo(Int16M)),
     Field(FALSE, Scalar("int8", <<129>>)), Field(FALSE, Other("map")),
     Field(TRUE, Other("map")), Field(TRUE, Other("interface")),
     Field(TRUE, Struct(<< >>))}

\* testStruct of the tests: struct { A int; B string; C float32 }
TestStruct(isz) ==
    Struct(<<Field(TRUE, Int42(isz)), Field(TRUE, StrAB), Field(TRUE, FloatM2)>>)

\* scalars, records of up to MaxFields fields, values of named types,
\* pointers, nil and the kinds without an encoding
GValues(isz) ==
    Scalars(isz)
    \cup {Struct(fs) : fs \in SeqsUpTo(FieldPool(isz), MaxFields)}
    \cup {Alias(Int42(isz)), Alias(StrAB), Alias(FloatM2), Alias(Scalar("uint8", <<1>>)),
          PtrTo(Int42(isz)), PtrTo(StrAB), PtrTo(Alias(Int16M)), PtrTo(Inner),
          PtrTo(TestStruct(isz)), TestStruct(isz),
          NilPtr, Invalid, Other("map"), Other("chan"), Other("func"),
          PtrTo(Other("map")), PtrTo(Other("interface")), PtrTo(PtrTo(Int16M)),
          PtrTo(NilPtr)}

\* the buffers a value is encoded into: of its size or longer, with
\* arbitrary contents; of ScratchLen bytes for a value without a size
GBuffers(v) ==
    IF Size(v) < 0 THEN {[i \in 1..ScratchLen |-> f] : f \in FillBytes}
    ELSE {[i \in 1..(Size(v) + t) |-> f] : f \in FillBytes, t \in {0, MaxTail}}

RECURSIVE ZeroOf(_)
\* the zero value of the type of v
ZeroOf(v) ==
    CASE v.kind = "string" -> [v EXCEPT !.val = << >>]
      [] v.kind = "ptr" -> [v EXCEPT !.sub = << >>]
      [] v.kind = "struct" ->
             [v EXCEPT !.sub = [i \in 1..Len(v.sub) |->
                                   [v.sub[i] EXCEPT !.v = ZeroOf(v.sub[i].v)]]]
      [] OTHER -> [v EXCEPT !.val = [i \in 1..Len(v.val) |-> 0]]

\* what Reflect is handed for the encoding of v: a pointer to the zero value
\* of v's type, or something that is no such pointer (the zero value itself,
\* a map, nil, a nil pointer)
Dests(v) ==
    {PtrTo(ZeroOf(Indirect(v))), ZeroOf(Indirect(v)), Other("map"), Invalid, NilPtr}

(***************************************************************************)
(* The generic codec: Size, then PutReflect, then Reflect.                 *)
(***************************************************************************)
GInit ==
    /\ Idle("primitive") /\ Idle("key") /\ Idle("concurrent")
    /\ intSize \in {4, 8}
    /\ gpc = "input"
    /\ data \in GValues(intSize)
    /\ gbuf0 \in GBuffers(data)
    /\ gbuf = gbuf0
    /\ gsize = 0
    /\ gput = "none"
    /\ dst0 = << >>
    /\ dst = << >>
    /\ gget = "none"

CallSize ==
    /\ gpc = "input"
    /\ gsize' = Size(data)
    /\ gpc' = "sized"
    /\ UNCHANGED <<pvars, intSize, kvars, cvars, data, gbuf0, gbuf, gput, dst0, dst, gget>>

CallPutReflect ==
    /\ gpc = "sized"
    /\ LET r == PutReflect(gbuf, data, intSize)
       IN  /\ gbuf' = r.buf
           /\ gput' = r.res
    /\ gpc' = "encoded"
    /\ UNCHANGED <<pvars, intSize, kvars, cvars, data, gbuf0, gsize, dst0, dst, gget>>

CallReflect ==
    /\ gpc = "encoded"
    /\ \E d \in Dests(data) :
          LET r == Reflect(gbuf, d, intSize)
          IN  /\ dst0' = d
              /\ dst' = r.data
              /\ gget' = r.res
    /\ gpc' = "decoded"
    /\ UNCHANGED <<pvars, intSize, kvars, cvars, data, gbuf0, gbuf, gsize, gput>>

GNext == CallSize \/ CallPutReflect \/ CallReflect

GSpec == GInit /\ [][GNext]_vars

(***************************************************************************)
(* Properties of the generic codec.                                        *)
(***************************************************************************)
RECURSIVE Encodable(_)
\* a boolean, number or string, a pointer to one, or a record with at least
\* one field all of whose fields are such values
Encodable(v0) ==
    LET v == Indirect(v0)
    IN  \/ v.kind \in ScalarKinds \cup {"string", "bool"}
        \/ /\ v.kind = "struct"
           /\ Len(v.sub) > 0
           /\ \A i \in 1..Len(v.sub) : Encodable(v.sub[i].v)

\* PutReflect has returned
Put == gpc \in {"encoded", "decoded"}

\* C14: Size(v) >= 0 exactly when PutReflect on a buffer of at least Size(v)
\* bytes returns no error; PutReflect then sets the first Size(v) bytes to
\* the encoding, whatever they held, and leaves the bytes after them alone;
\* Size is -1 for nil, nil pointers, maps and the other kinds without an
\* encoding, records without fields and records with such a field.
C14_SizeIsBytesWritten ==
    Put =>
       /\ (gsize >= 0) <=> (gput = "ok")
       /\ gput # "panic"
       /\ gsize >= 0 =>
             /\ SubSeq(gbuf, gsize + 1, Len(gbuf)) = SubSeq(gbuf0, gsize + 1, Len(gbuf0))
             /\ SubSeq(gbuf, 1, gsize) = PutReflect(Make(gsize), data, intSize).buf
       /\ Encodable(data) <=> gsize >= 1
       /\ ~Encodable(data) <=> gsize = -1

\* a record with a string field, encoded over other bytes with a tail
C14_Witness ==
    /\ Put
    /\ data.kind = "struct"
    /\ gsize = 11
    /\ Len(gbuf0) = 11 + MaxTail
    /\ gbuf0[1] = 170
    /\ gbuf # gbuf0

\* the bytes the primitive codec writes for a value of kind k
Primitive(k, x, isz) ==
    CASE k = "string" -> PutString(Make(Len(x) + 1), x)
      [] k = "bool" -> PutBool(Make(1), x)
      [] k = "int" -> PutInt(Make(8), x, isz)
      [] k = "uint" -> PutUint(Make(8), x, isz)
      [] k = "int8" -> PutInt8(Make(1), x)
      [] k = "uint8" -> PutUint8(Make(1), x)
      [] k = "int16" -> PutInt16(Make(2), x)
      [] k = "uint16" -> PutUint16(Make(2), x)
      [] k = "int32" -> PutInt32(Make(4), x)
      [] k = "uint32" -> PutUint32(Make(4), x)
      [] k = "int64" -> PutInt64(Make(8), x)
      [] k = "uint64" -> PutUint64(Make(8), x)
      [] k = "float32" -> PutFloat32(Make(4), x)
      [] k = "float64" -> PutFloat64(Make(8), x)
      [] k = "complex64" -> PutComplex64(Make(8), x)
      [] k = "complex128" -> PutComplex128(Make(16), x)

RECURSIVE Layout(_, _)
RECURSIVE FieldsLayout(_, _, _)
\* the encodings of the fields i, i+1, ... of a record, one after the other
FieldsLayout(fs, i, isz) ==
    IF i > Len(fs) THEN << >>
    ELSE Layout(fs[i].v, isz) \o FieldsLayout(fs, i + 1, isz)

\* the bytes of an encodable value: those of the primitive codec for a
\* scalar, an alias or a pointer to one, the fields' bytes in declaration
\* order for a record
Layout(v0, isz) ==
    LET v == Indirect(v0)
    IN  IF v.kind = "struct" THEN FieldsLayout(v.sub, 1, isz)
        ELSE Primitive(v.kind, v.val, isz)

\* C15: what PutReflect writes for a scalar, an alias of one or a pointer to
\* one is what the primitive Put function of the kind writes; for a record
\* it is the encodings of the fields in declaration order, each right after
\* the one before, nested records included; {A int, B string, C float32} is
\* PutInt(A) at 0, PutString(B) at 8 and PutFloat32(C) at 8 + len(B) + 1.
C15_PutReflectAgreesWithPrimitives ==
    (Put /\ gput = "ok") =>
       /\ SubSeq(gbuf, 1, gsize) = Layout(data, intSize)
       /\ data = TestStruct(intSize) =>
             /\ SubSeq(gbuf, 1, 8) = PutInt(Make(8), data.sub[1].v.val, intSize)
             /\ SubSeq(gbuf, 9, 11) = PutString(Make(3), data.sub[2].v.val)
             /\ SubSeq(gbuf, 12, 15) = PutFloat32(Make(4), data.sub[3].v.val)

\* testStruct encoded over a buffer that held other bytes
C15_Witness ==
    /\ Put /\ gput = "ok"
    /\ data = TestStruct(intSize)
    /\ gbuf0[1] = 170
    /\ gsize = 15
    /\ SubSeq(gbuf, 1, 8) = <<128, 0, 0, 0, 0, 0, 0, 42>>
    /\ SubSeq(gbuf, 9, 11) = <<1, 255, 0>>

\* C16: when PutReflect returns an error, no byte of b has changed.
C16_ErrorLeavesBufferAlone ==
    (Put /\ gput = "error") => gbuf = gbuf0

RECURSIVE RoundTrips(_)
\* a supported scalar, an alias of one, or a record of exported fields of
\* such types; strings without 0 byte, floats neither -0.0 nor NaN
RoundTrips(v) ==
    CASE v.kind = "string" -> NoNul(v.val)
      [] v.kind = "float32" -> v.val # NegZero(32) /\ ~IsNaN(v.val, 32)
      [] v.kind = "float64" -> v.val # NegZero(64) /\ ~IsNaN(v.val, 64)
      [] v.kind = "complex64" ->
             \A h \in {SubSeq(v.val, 1, 2), SubSeq(v.val, 3, 4)} :
                 h # NegZero(32) /\ ~IsNaN(h, 32)
      [] v.kind = "complex128" ->
             \A h \in {SubSeq(v.val, 1, 4), SubSeq(v.val, 5, 8)} :
                 h # NegZero(64) /\ ~IsNaN(h, 64)
      [] v.kind \in ScalarKinds \cup {"bool"} -> TRUE
      [] v.kind = "struct" ->
             /\ Len(v.sub) > 0
             /\ \A i \in 1..Len(v.sub) : v.sub[i].exp /\ RoundTrips(v.sub[i].v)
      [] OTHER -> FALSE

\* Reflect has returned from reading the encoding of data, held by a buffer
\* of exactly Size(data) bytes, into a pointer to the zero value of its type
ReadBack ==
    /\ gpc = "decoded"
    /\ RoundTrips(data)
    /\ Len(gbuf0) = gsize
    /\ dst0 = PtrTo(ZeroOf(data))

\* C17: the encoding of such a value, read by Reflect into a pointer to the
\* zero value of the type, gives a value equal to the encoded one, and
\* encoding that value again gives the same bytes.
C17_ReflectRoundTrip ==
    ReadBack =>
       /\ gget = "ok"
       /\ Elem(dst) = data
       /\ PutReflect(Make(gsize), Elem(dst), intSize) = [res |-> "ok", buf |-> gbuf]

\* a nested record with a string in front of other fields comes back
C17_Witness ==
    /\ ReadBack
    /\ data.kind = "struct"
    /\ Len(data.sub) = 2
    /\ data.sub[1].v = Inner
    /\ data.sub[2].v = FloatM2
    /\ Elem(dst) # Elem(dst0)
    /\ Elem(dst) = data

\* Reflect has returned from a call whose destination is no pointer, or a
\* nil pointer
NoPointer == gpc = "decoded" /\ (dst0.kind # "ptr" \/ dst0 = NilPtr)

\* C18: Reflect handed a value that is no pointer (a plain value, a map,
\* nil) or a nil pointer returns an error, does not panic, and leaves the
\* caller's value as it was.
C18_ReflectNeedsPointer ==
    NoPointer => (gget = "error" /\ dst = dst0)

\* a plain int16 handed to Reflect with a valid encoding
C18_Witness ==
    /\ NoPointer
    /\ gput = "ok"
    /\ gget = "error"
    /\ dst0 = ZeroOf(Int16M)

(***************************************************************************)
(* Key and MustKey on two argument lists of the same types.                *)
(***************************************************************************)
MaxArgs == 2

\* the arguments of Key: numbers and strings that compare below, equal to
\* and above each other, a pointer, a record, and the arguments Key refuses
KeyArgs(isz) ==
    {Int16M, Scalar("int16", <<1>>),
     Scalar("string", << >>), StrAB,
     FloatM2, Scalar("float32", FloatBits(32, 0, 127, ZeroW(32))),
     Int42(isz),
     PtrTo(Int16M), TestStruct(isz),
     Invalid, NilPtr, Other("map"), PtrTo(Other("map")), Struct(<< >>)}

\* the kinds whose values are numbers or strings with an order
OrderedKinds == (ScalarKinds \ {"complex64", "complex128"}) \cup {"string"}

\* two values that may stand at the same position of two argument lists
\* of the same types
Alike(x, y) ==
    IF x.kind \in OrderedKinds THEN x.kind = y.kind /\ x.named = y.named
    ELSE x = y

KInit ==
    /\ Idle("primitive") /\ Idle("generic") /\ Idle("concurrent")
    /\ intSize \in {4, 8}
    /\ kpc = "input"
    /\ args \in SeqsUpTo(KeyArgs(intSize), MaxArgs)
    /\ args2 \in {l \in SeqsUpTo(KeyArgs(intSize), MaxArgs) :
                     /\ Len(l) = Len(args)
                     /\ \A i \in 1..Len(l) : Alike(args[i], l[i])}
    /\ key1 = << >>
    /\ key2 = << >>
    /\ must = << >>

\* Key(args...)
CallKey ==
    /\ kpc = "input"
    /\ key1' = Key(args, intSize)
    /\ kpc' = "first"
    /\ UNCHANGED <<pvars, intSize, gvars, cvars, args, args2, key2, must>>

\* Key(args2...)
CallKeyOther ==
    /\ kpc = "first"
    /\ key2' = Key(args2, intSize)
    /\ kpc' = "second"
    /\ UNCHANGED <<pvars, intSize, gvars, cvars, args, args2, key1, must>>

\* MustKey(args...)
CallMustKey ==
    /\ kpc = "second"
    /\ must' = MustKey(args, intSize)
    /\ kpc' = "done"
    /\ UNCHANGED <<pvars, intSize, gvars, cvars, args, args2, key1, key2>>

KNext == CallKey \/ CallKeyOther \/ CallMustKey

KSpec == KInit /\ [][KNext]_vars

(***************************************************************************)
(* Properties of Key and MustKey.                                          *)
(***************************************************************************)
\* comparison of two values of the same ordered kind: numeric for numbers,
\* bytewise for strings
ValueCmp(x, y, isz) ==
    CASE x.kind = "string" -> CompareStrings(x.val, y.val)
      [] x.kind \in FloatKinds -> FloatCmp(x.val, y.val)
      [] OTHER -> IntCmp(x.val, y.val, x.kind, isz)

RECURSIVE TupleCmp(_, _, _, _)
\* first-field-major comparison of two tuples from position i on
TupleCmp(x, y, i, isz) ==
    IF i > Len(x) THEN 0
    ELSE IF ValueCmp(x[i], y[i], isz) # 0 THEN ValueCmp(x[i], y[i], isz)
    ELSE TupleCmp(x, y, i + 1, isz)

\* a number that is no NaN or a string without a 0 byte
Ordered(v) ==
    /\ v.kind \in OrderedKinds
    /\ v.kind = "string" => NoNul(v.val)
    /\ v.kind \in FloatKinds => ~IsNaN(v.val, 16 * Len(v.val))

\* both keys are built, from lists of ordered values
BothKeyed ==
    /\ kpc \in {"second", "done"}
    /\ Len(args) > 0
    /\ \A i \in 1..Len(args) : Ordered(args[i]) /\ Ordered(args2[i])

\* C11: for two argument lists of the same length and the same types at
\* each position (numbers, strings without a 0 byte, floats no NaN), the
\* bytewise comparison of the two keys has the sign of the first-field-major
\* comparison of the tuples, also when a string is followed by more fields.
C11_KeyOrder ==
    BothKeyed =>
       /\ key1.res = "ok" /\ key2.res = "ok"
       /\ CompareBytes(key1.b, key2.b) = TupleCmp(args, args2, 1, intSize)

\* a string that is a prefix of the other list's string, followed by a field
\* that compares the other way
C11_Witness ==
    /\ BothKeyed
    /\ Len(args) = 2
    /\ args[1] = Scalar("string", << >>) /\ args2[1] = StrAB
    /\ args[2] = Scalar("int16", <<1>>) /\ args2[2] = Int16M
    /\ CompareBytes(key1.b, key2.b) = -1

RECURSIVE Concat(_, _, _)
\* F(1) \o F(2) \o ... \o F(n), from i on
Concat(F, i, n) == IF i > n THEN << >> ELSE F[i] \o Concat(F, i + 1, n)

RECURSIVE Sum(_, _, _)
Sum(F, i, n) == IF i > n THEN 0 ELSE F[i] + Sum(F, i + 1, n)

IsPrefix(x, y) == Len(x) <= Len(y) /\ x = SubSeq(y, 1, Len(x))

\* Key(args...) has returned
Keyed == kpc \in {"first", "second", "done"}

\* C12: when Key succeeds its buffer has the length Size(v1)+...+Size(vn)
\* and is the PutReflect encodings of the arguments one after the other, in
\* argument order; so Key(v1..vn) is Key(v1) ++ ... ++ Key(vn), and
\* Key(v1..vk) is a prefix of it for every k <= n.
C12_KeyIsConcatenation ==
    (Keyed /\ key1.res = "ok") =>
       LET n == Len(args)
       IN  /\ Len(key1.b) = Sum([i \in 1..n |-> Size(args[i])], 1, n)
           /\ key1.b = Concat([i \in 1..n |->
                                 PutReflect(Make(Size(args[i])), args[i], intSize).buf], 1, n)
           /\ key1.b = Concat([i \in 1..n |-> Key(<<args[i]>>, intSize).b], 1, n)
           /\ \A k \in 1..n :
                 /\ Key(SubSeq(args, 1, k), intSize).res = "ok"
                 /\ IsPrefix(Key(SubSeq(args, 1, k), intSize).b, key1.b)

\* the key of a string and a record: the record's bytes follow the string's
C12_Witness ==
    /\ Keyed /\ key1.res = "ok"
    /\ args = <<StrAB, TestStruct(intSize)>>
    /\ Len(key1.b) = 18
    /\ SubSeq(key1.b, 1, 3) = <<1, 255, 0>>
    /\ SubSeq(key1.b, 4, 11) = <<128, 0, 0, 0, 0, 0, 0, 42>>

\* the list is empty, or an argument is nil, a nil pointer, a value of a
\* kind without an encoding or a pointer to one
Refused(ds) == Len(ds) = 0 \/ \E i \in 1..Len(ds) : ~Encodable(ds[i])

\* C13: Key returns a nil buffer and an error when the list is empty or an
\* argument is nil, a nil pointer, of an unsupported kind or a pointer to
\* such a value; it returns a buffer that is not nil and no error otherwise.
C13_KeyErrors ==
    Keyed =>
       /\ Refused(args) => (key1.res = "error" /\ key1.nil /\ key1.b = << >>)
       /\ ~Refused(args) => (key1.res = "ok" /\ ~key1.nil)

\* a supported argument in front of a pointer to a map
C13_Witness ==
    /\ Keyed
    /\ args = <<Int42(intSize), PtrTo(Other("map"))>>
    /\ key1.res = "error"
    /\ key1.nil

\* C19: MustKey panics for every argument list Key returns an error for (the
\* empty list, nil, a nil pointer, an unsupported kind, a pointer to one) and
\* returns the bytes Key returns for every other list.
C19_MustKey ==
    kpc = "done" =>
       /\ (key1.res = "error") <=> (must.res = "panic")
       /\ Refused(args) => must.res = "panic"
       /\ ~Refused(args) => (must.res = "ok" /\ ~must.nil /\ must.b = key1.b)

\* MustKey has panicked on a nil pointer after a supported argument
C19_Witness ==
    /\ kpc = "done"
    /\ args = <<StrAB, NilPtr>>
    /\ key1.res = "error"
    /\ must.res = "panic"

(***************************************************************************)
(* Concurrent calls.  The package declares no variable: a call works on    *)
(* its arguments, on locals of its own stack frame and on the caller's     *)
(* buffer.  Each call below runs on its own buffer, one byte access at a   *)
(* time, interleaved with the other calls.                                 *)
(***************************************************************************)
NProcs == 2

Procs == 1..NProcs

\* the frame the locals of the call of goroutine p live in
Frame_Shared(p) == 1

Frame(p) == p

\* a call: the function, its data arguments and the buffer it is handed
Call(name, v, buf) == [name |-> name, v |-> v, buf |-> buf]

\* PutReflect on a buffer with other contents, Reflect on an encoding, Size,
\* and Key, which makes its own buffer
Calls(isz) ==
    {Call("PutReflect", <<x>>, [i \in 1..Size(x) |-> 170]) : x \in {Int16M, StrAB, Inner}}
    \cup {Call("Reflect", <<x>>, PutReflect(Make(Size(x)), x, isz).buf) : x \in {Int16M, StrAB, Inner}}
    \cup {Call("Size", <<x>>, << >>) : x \in {StrAB, Other("map")}}
    \cup {Call("Key", l, << >>) : l \in {<<Int16M, StrAB>>, <<StrAB, Inner>>}}

\* the bytes the call with data arguments v writes, in the order of their
\* indices: those of PutReflect for its value, those of Key for its list
Written(name, v, isz) ==
    IF name = "Key" THEN Key(v, isz).b
    ELSE IF name = "PutReflect" THEN PutReflect(Make(Size(v[1])), v[1], isz).buf
    ELSE << >>

CInit ==
    /\ Idle("primitive") /\ Idle("generic") /\ Idle("key")
    /\ intSize = 8
    /\ cop \in [Procs -> Calls(intSize)]
    /\ cpc = [p \in Procs |-> "ready"]
    /\ cbuf = [p \in Procs |-> cop[p].buf]
    /\ clocal = [f \in Procs |-> [v |-> << >>, i |-> 0, acc |-> << >>]]
    /\ cres = [p \in Procs |-> "none"]

\* the call of p starts: its arguments are now locals of its frame
Enter(p) ==
    /\ cpc[p] = "ready"
    /\ clocal' = [clocal EXCEPT ![Frame(p)] =
                     [v |-> cop[p].v, i |-> IF cop[p].name = "Key" THEN -1 ELSE 0,
                      acc |-> << >>]]
    /\ cpc' = [cpc EXCEPT ![p] = "running"]
    /\ UNCHANGED <<pvars, intSize, gvars, kvars, cop, cbuf, cres>>

\* Key: b := make([]byte, sum)
Alloc(p) ==
    /\ cpc[p] = "running"
    /\ cop[p].name = "Key"
    /\ clocal[Frame(p)].i = -1
    /\ cbuf' = [cbuf EXCEPT ![p] = Make(Len(Written("Key", clocal[Frame(p)].v, intSize)))]
    /\ clocal' = [clocal EXCEPT ![Frame(p)].i = 0]
    /\ UNCHANGED <<pvars, intSize, gvars, kvars, cop, cpc, cres>>

\* PutReflect, Key: the next byte is written; a write past the end of the
\* buffer panics
WriteByte(p) ==
    LET f == clocal[Frame(p)]
        w == Written(cop[p].name, f.v, intSize)
    IN  /\ cpc[p] = "running"
        /\ cop[p].name \in {"PutReflect", "Key"}
        /\ f.i >= 0
        /\ f.i < Len(w)
        /\ IF f.i < Len(cbuf[p])
           THEN /\ cbuf' = [cbuf EXCEPT ![p][f.i + 1] = w[f.i + 1]]
                /\ clocal' = [clocal EXCEPT ![Frame(p)].i = f.i + 1]
                /\ UNCHANGED <<cpc, cres>>
           ELSE /\ cres' = [cres EXCEPT ![p] = "panic"]
                /\ cpc' = [cpc EXCEPT ![p] = "done"]
                /\ UNCHANGED <<cbuf, clocal>>
        /\ UNCHANGED <<pvars, intSize, gvars, kvars, cop>>

\* Reflect: the next byte is read
ReadByte(p) ==
    LET f == clocal[Frame(p)]
    IN  /\ cpc[p] = "running"
        /\ cop[p].name = "Reflect"
        /\ f.i >= 0
        /\ f.i < Len(cbuf[p])
        /\ clocal' = [clocal EXCEPT ![Frame(p)] =
                         [f EXCEPT !.i = f.i + 1, !.acc = Append(f.acc, cbuf[p][f.i + 1])]]
        /\ UNCHANGED <<pvars, intSize, gvars, kvars, cop, cpc, cbuf, cres>>

\* the call returns once its bytes are written or read
Return(p) ==
    LET f == clocal[Frame(p)]
        name == cop[p].name
    IN  /\ cpc[p] = "running"
        /\ \/ name = "Size"
           \/ name \in {"PutReflect", "Key"} /\ f.i >= Len(Written(name, f.v, intSize))
           \/ name = "Reflect" /\ f.i >= Len(cbuf[p])
        /\ f.v # << >>
        /\ cres' = [cres EXCEPT ![p] =
                       CASE name = "Size" -> Size(f.v[1])
                         [] name = "PutReflect" -> "ok"
                         [] name = "Key" -> "ok"
                         [] name = "Reflect" ->
                                Reflect(f.acc, PtrTo(ZeroOf(f.v[1])), intSize)]
        /\ cpc' = [cpc EXCEPT ![p] = "done"]
        /\ UNCHANGED <<pvars, intSize, gvars, kvars, cop, cbuf, clocal>>

CNext == \E p \in Procs : Enter(p) \/ Alloc(p) \/ WriteByte(p) \/ ReadByte(p) \/ Return(p)

CSpec == CInit /\ [][CNext]_vars

\* what the call c returns and leaves in its buffer when it runs alone
Alone(c) ==
    CASE c.name = "Size" -> [res |-> Size(c.v[1]), buf |-> c.buf]
      [] c.name = "PutReflect" ->
             LET r == PutReflect(c.buf, c.v[1], intSize) IN [res |-> r.res, buf |-> r.buf]
      [] c.name = "Key" ->
             LET r == Key(c.v, intSize) IN [res |-> r.res, buf |-> r.b]
      [] c.name = "Reflect" ->
             [res |-> Reflect(c.buf, PtrTo(ZeroOf(c.v[1])), intSize), buf |-> c.buf]

\* C20: calls that run at the same time, each on its own buffer and its own
\* destination, return what they return and leave in their buffers what
\* they leave when they run alone, however their byte reads and writes are
\* interleaved.
C20_ConcurrentCalls ==
    \A p \in Procs :
        cpc[p] = "done" => [res |-> cres[p], buf |-> cbuf[p]] = Alone(cop[p])

\* a PutReflect and a Reflect of different values have both returned
C20_Witness ==
    /\ \A p \in Procs : cpc[p] = "done"
    /\ cop[1] = Call("PutReflect", <<StrAB>>, <<170, 170, 170>>)
    /\ cop[2].name = "Reflect" /\ cop[2].v = <<Inner>>
    /\ cbuf[1] = <<1, 255, 0>>
    /\ cres[2].res = "ok"

(***************************************************************************)
(* Complex numbers.                                                        *)
(***************************************************************************)
\* width of the two parts of a complex value of the kind at hand
PartWidth == IF kind = "complex64" THEN 32 ELSE 64

\* real(x) and imag(x)
Re(x) == SubSeq(x, 1, Len(x) \div 2)
Im(x) == SubSeq(x, (Len(x) \div 2) + 1, Len(x))

NoNaNPart(x) == ~IsNaN(Re(x), PartWidth) /\ ~IsNaN(Im(x), PartWidth)

\* the float encoding of one part
PartBytes(x) ==
    IF PartWidth = 32 THEN PutFloat32(Make(4), x) ELSE PutFloat64(Make(8), x)

\* comparison by real part first and imaginary part second
ComplexCmp(x, y) ==
    IF FloatCmp(Re(x), Re(y)) # 0 THEN FloatCmp(Re(x), Re(y))
    ELSE FloatCmp(Im(x), Im(y))

\* a part as it comes back from its encoding: -0.0 as +0.0, any other
\* pattern as it was
Back(x) == IF x = NegZero(PartWidth) THEN PosZero(PartWidth) ELSE x

\* C22: a complex value is encoded as the float encoding of its real part
\* followed by that of its imaginary part, 8 bytes for complex64 and 16 for
\* complex128; for values without a NaN part the bytewise order of the
\* encodings is the order by real part first and imaginary part second;
\* decoding returns both parts, equal to those encoded.
C22_ComplexEncoding ==
    (kind \in {"complex64", "complex128"}) =>
       /\ pc \in {"encoded", "decoded"} =>
             /\ Len(ba) = (IF kind = "complex64" THEN 8 ELSE 16)
             /\ ba = PartBytes(Re(a)) \o PartBytes(Im(a))
             /\ (NoNaNPart(a) /\ NoNaNPart(b)) => CompareBytes(ba, bb) = ComplexCmp(a, b)
       /\ pc = "decoded" =>
             /\ Re(ra) = Back(Re(a)) /\ Im(ra) = Back(Im(a))
             /\ NoNaNPart(a) =>
                   (FloatCmp(Re(ra), Re(a)) = 0 /\ FloatCmp(Im(ra), Im(a)) = 0)

\* two complex64 values with the same real part, ordered by their imaginary
\* parts, the first decoded again
C22_Witness ==
    /\ pc = "decoded"
    /\ kind = "complex64"
    /\ Re(a) = Re(b)
    /\ FloatCmp(Im(a), Im(b)) = -1
    /\ CompareBytes(ba, bb) = -1
    /\ ra = a

(***************************************************************************)
(* Reflect and records.                                                    *)
(***************************************************************************)
RECURSIVE Exported(_)
\* the record type with its unexported fields left out, in nested records
\* too
Exported(v) ==
    IF v.kind # "struct" THEN v
    ELSE [v EXCEPT !.sub =
             LET RECURSIVE Keep(_)
                 Keep(i) ==
                     IF i > Len(v.sub) THEN << >>
                     ELSE IF v.sub[i].exp
                     THEN <<[v.sub[i] EXCEPT !.v = Exported(v.sub[i].v)]>> \o Keep(i + 1)
                     ELSE Keep(i + 1)
             IN  Keep(1)]

\* Reflect has returned from reading the buffer into a pointer to the zero
\* value of a record type
ReadRecord ==
    /\ gpc = "decoded"
    /\ dst0.kind = "ptr"
    /\ Elem(dst0).kind = "struct"

\* C21: Reflect sets the exported fields of a record in declaration order
\* and leaves the others as they are; a field it does not set takes no
\* bytes, so the exported fields are read where they would be read if the
\* record had no other fields, whatever PutReflect wrote for those; Reflect
\* fails for a record without exported field.
C21_ReflectSkipsUnexported ==
    ReadRecord =>
       LET alone == Reflect(gbuf, PtrTo(Exported(Elem(dst0))), intSize)
           fs == Elem(dst).sub
       IN  /\ gget = alone.res
           /\ Exported(Elem(dst)) = Elem(alone.data)
           /\ \A i \in 1..Len(fs) : ~fs[i].exp => fs[i] = Elem(dst0).sub[i]
           /\ (\A i \in 1..Len(fs) : ~fs[i].exp) => gget = "error"
           /\ (Len(fs) = 2 /\ ~fs[1].exp /\ fs[2].v.kind = "float32") =>
                 fs[2].v.val = Float32(SubSeq(gbuf, 1, 4))

\* struct { a int8; C float32 }: C is read from the byte PutReflect wrote for
\* a and the first three bytes it wrote for C
C21_Witness ==
    /\ ReadRecord
    /\ data = Struct(<<Field(FALSE, Scalar("int8", <<129>>)), Field(TRUE, FloatM2)>>)
    /\ gput = "ok"
    /\ SubSeq(gbuf, 1, 5) = <<1, 64, 0, 0, 0>>
    /\ gget = "ok"
    /\ Elem(dst).sub[1] = Elem(dst0).sub[1]
    /\ Elem(dst).sub[2].v.val = Float32(<<1, 64, 0, 0>>)

RECURSIVE Readable(_)
\* a boolean, number or string, or a record with an exported field all of
\* whose exported fields are such values
Readable(v) ==
    \/ v.kind \in ScalarKinds \cup {"string", "bool"}
    \/ /\ v.kind = "struct"
       /\ \E i \in 1..Len(v.sub) : v.sub[i].exp
       /\ \A i \in 1..Len(v.sub) : v.sub[i].exp => Readable(v.sub[i].v)

\* the exported fields of the record fs that Reflect cannot read
Failing(fs) == {i \in 1..Len(fs) : fs[i].exp /\ ~Readable(fs[i].v)}

\* the first of them
FirstFailing(fs) == CHOOSE i \in Failing(fs) : \A j \in Failing(fs) : i <= j

\* C23: when Reflect fails at an exported field of a record that it cannot
\* read, the exported fields before it hold what was decoded for them and
\* the fields after it are as they were; when no field was set before the
\* failure the destination is unchanged.
C23_ReflectNotAtomic ==
    (ReadRecord /\ gget = "error") =>
       LET fs0 == Elem(dst0).sub
           fs == Elem(dst).sub
       IN  IF Failing(fs0) = {} THEN dst = dst0
           ELSE LET k == FirstFailing(fs0)
                    before == Struct(SubSeq(fs0, 1, k - 1))
                    alone == Reflect(gbuf, PtrTo(before), intSize)
                IN  /\ \A i \in k..Len(fs) :
                          (i > k \/ fs0[i].v.kind # "struct") => fs[i] = fs0[i]
                    /\ IF \E i \in 1..(k - 1) : fs0[i].exp
                       THEN /\ alone.res = "ok"
                            /\ SubSeq(fs, 1, k - 1) = Elem(alone.data).sub
                       ELSE dst = dst0

\* struct { A int; M map[string]int }: A is set although Reflect fails at M
C23_Witness ==
    /\ ReadRecord
    /\ gget = "error"
    /\ Len(Elem(dst0).sub) = 2
    /\ Elem(dst0).sub[1] = Field(TRUE, ZeroOf(Int42(intSize)))
    /\ Elem(dst0).sub[2] = Field(TRUE, Other("map"))
    /\ Elem(dst).sub[1].v = Int42(intSize)
    /\ Elem(dst).sub[2] = Elem(dst0).sub[2]
    /\ dst # dst0

RECURSIVE Plain(_)
\* a record with at least one field, every field exported and a boolean,
\* number, string or such a record
Plain(v) ==
    /\ v.kind = "struct"
    /\ Len(v.sub) > 0
    /\ \A i \in 1..Len(v.sub) :
          /\ v.sub[i].exp
          /\ v.sub[i].v.kind \in ScalarKinds \cup {"string", "bool"} \/ Plain(v.sub[i].v)

\* a record has gone through Size, PutReflect and Reflect into a pointer to
\* the zero value of its type
RecordCoded == ReadRecord /\ data.kind = "struct" /\ dst0 = PtrTo(ZeroOf(data))

\* C24 as stated: Size/PutReflect and Reflect give the same verdict on a
\* record only when every field is exported and of a supported kind that is
\* no pointer.
C24_AgreeOnlyOnPlainRecords ==
    RecordCoded => (((gput = "ok") <=> (gget = "ok")) => Plain(data))

\* C24 amended: Size/PutReflect accept a record exactly when it has a field
\* and every field, exported or not, is of a supported kind or a pointer to
\* one; Reflect accepts it exactly when it has an exported field and every
\* exported field is of a supported kind that is no pointer.  So both accept
\* every record of exported fields of such kinds; a record with a pointer
\* field or with unexported supported fields only is accepted by
\* Size/PutReflect and rejected by Reflect; a record with a supported
\* exported field and an unexported field of unsupported kind is rejected by
\* Size/PutReflect and accepted by Reflect; on other records they may agree.
C24_WhereSizeAndReflectDisagree ==
    RecordCoded =>
       LET fs == data.sub
       IN  /\ (gsize >= 0) <=> (gput = "ok")
           /\ (gput = "ok") <=> Encodable(data)
           /\ (gput = "error") <=> ~Encodable(data)
           /\ (gget = "ok") <=> Readable(data)
           /\ (gget = "error") <=> ~Readable(data)
           /\ Plain(data) => (gput = "ok" /\ gget = "ok")
           /\ (Encodable(data) /\ \E i \in 1..Len(fs) : fs[i].exp /\ fs[i].v.kind = "ptr") =>
                 (gput = "ok" /\ gget = "error")
           /\ (Encodable(data) /\ \A i \in 1..Len(fs) : ~fs[i].exp) =>
                 (gput = "ok" /\ gget = "error")
           /\ (Readable(data) /\ \E i \in 1..Len(fs) : ~fs[i].exp /\ ~Encodable(fs[i].v)) =>
                 (gsize = -1 /\ gput = "error" /\ gget = "ok")

\* struct { A int; m map[string]int }: no size, no encoding, and read by
\* Reflect without an error
C24_Witness ==
    /\ RecordCoded
    /\ data = Struct(<<Field(TRUE, Int42(intSize)), Field(FALSE, Other("map"))>>)
    /\ gsize = -1
    /\ gput = "error"
    /\ gget = "ok"
    /\ dst # dst0

====
